---- MODULE Spec2Model ----
(***************************************************************************)
(* Project membership workflow of SKILL-SYNC: the route handlers           *)
(*   POST   /api/projects          (Create project)                        *)
(*   DELETE /api/projects          (Delete project)                        *)
(*   POST   /api/projects/join     (Apply)                                 *)
(*   PATCH  /api/projects/member   (Respond: accept / reject)              *)
(*   DELETE /api/projects/member   (Remove)                                *)
(*   GET    /api/projects          (List)                                  *)
(*   POST   /api/user-skills       (Skill create)                          *)
(*   DELETE /api/user-skills       (Skill delete)                          *)
(*   GET    /api/user-skills       (Skill list)                            *)
(* over the relational store (User, Project, ProjectMember, Skill tables), *)
(* and the project handlers over the file data/projects.json, which they   *)
(* use when the Prisma client has no Project model.                        *)
(*                                                                         *)
(* A store call that sits in its own try/catch in the source may throw     *)
(* (inputs named ...Throws); a store call covered only by the handler's    *)
(* outer catch throws when a constraint of the schema is violated (unique  *)
(* index, foreign key, row to update not found).                           *)
(*                                                                         *)
(* Spec handles the requests one at a time.  SpecConc handles them          *)
(* concurrently: a handler runs up to its next await on the store, and the  *)
(* store executes each call as one statement.                               *)
(***************************************************************************)
EXTENDS Integers, Sequences, FiniteSets, Bags, TLC

VARIABLES users, projects, members, nextPid, clock, resp, inflight
VARIABLES skills, nextSid, file, hasProjectModel, pushed
VARIABLES learned, taught, nextTemp, posts, responses, emitted

\* the state of the dashboard page and the messages on their way to it
dashboard == <<learned, taught, nextTemp, posts, responses, emitted>>

vars == <<users, projects, members, nextPid, clock, resp, inflight,
          skills, nextSid, file, hasProjectModel, pushed, dashboard>>

----------------------------------------------------------------------------
(* Bounds *)

\* skills added from the dashboard
MaxAdds == 2

MaxProjects == 1
MaxRequests == 3
\* requests in flight at one time (SpecConc)
MaxInFlight == 2
\* Skill rows ever created
MaxSkills == 1

----------------------------------------------------------------------------
(* Values *)

Users == {"u1", "u2", "u3"}
\* currentUser() returned null, or a string parameter is absent / empty
Null == "null"
Callers == Users \cup {Null}
\* projectId absent from the request
NoId == 0
PIDs == 1..MaxProjects
\* SQL NULL of a TIMESTAMP column, and a timestamp
NoDate == <<>>
Date(t) == <<t>>

\* characters of the strings whose content the handlers inspect
SP == " "
COMMA == ","

\* s.trim()
RECURSIVE Trim(_)
Trim(s) ==
  IF s = <<>> THEN s
  ELSE IF Head(s) = SP THEN Trim(Tail(s))
  ELSE IF s[Len(s)] = SP THEN Trim(SubSeq(s, 1, Len(s) - 1))
  ELSE s

\* s.split(',')
RECURSIVE SplitFrom(_, _)
SplitFrom(s, cur) ==
  IF s = <<>> THEN <<cur>>
  ELSE IF Head(s) = COMMA THEN <<cur>> \o SplitFrom(Tail(s), <<>>)
  ELSE SplitFrom(Tail(s), Append(cur, Head(s)))

Split(s) == SplitFrom(s, <<>>)

\* xs.map((s) => s.trim())
MapTrim(xs) == [i \in 1..Len(xs) |-> Trim(xs[i])]

\* xs.filter(Boolean) on strings: drops the empty ones
RECURSIVE FilterBoolean(_)
FilterBoolean(xs) ==
  IF xs = <<>> THEN <<>>
  ELSE IF Head(xs) = <<>> THEN FilterBoolean(Tail(xs))
  ELSE <<Head(xs)>> \o FilterBoolean(Tail(xs))

\* variant: the entries are stored as sent
NormSkills_AsSent(skillsRaw) ==
  IF skillsRaw.kind = "array" THEN skillsRaw.items
  ELSE IF skillsRaw.kind = "string" THEN Split(skillsRaw.items[1])
  ELSE <<>>

\* body.skills is an array of strings, one string, or anything else
NormSkills(skillsRaw) ==
  IF skillsRaw.kind = "array" THEN FilterBoolean(MapTrim(skillsRaw.items))
  ELSE IF skillsRaw.kind = "string" THEN FilterBoolean(MapTrim(Split(skillsRaw.items[1])))
  ELSE <<>>

\* (x as string) || undefined : the empty string is as good as absent
OrUndefined(x) == IF x = "" THEN Null ELSE x

\* body.agreedToGuidelines as sent (absent, a boolean, or a string), and Boolean(...)
AgreedValues == {"undefined", "false", "true"}

\* variant: only an explicit false is falsy
ToBoolean_AbsentAgrees(v) == v # "false"

ToBoolean(v) == v \notin {"undefined", "false"}

----------------------------------------------------------------------------
(* Request bodies of Apply *)

PayloadA ==
  [fullName |-> "Ann", contactInfo |-> "ann@x", portfolioUrl |-> "url-a",
   skills |-> [kind |-> "array", items |-> << <<SP, "t", "s">>, <<SP>>, <<"g", "o">> >>],
   preferredRole |-> "Frontend", availability |-> "weekends", motivation |-> "learn"]

PayloadB ==
  [fullName |-> "Bea", contactInfo |-> "", portfolioUrl |-> "url-b",
   skills |-> [kind |-> "string", items |-> << <<"c", COMMA, SP, COMMA, "t", "s", SP>> >>],
   preferredRole |-> "Backend", availability |-> "", motivation |-> "build"]

PayloadE ==
  [fullName |-> "", contactInfo |-> "", portfolioUrl |-> "",
   skills |-> [kind |-> "none", items |-> <<>>],
   preferredRole |-> "", availability |-> "", motivation |-> ""]

\* an applicant who names "Owner" as the role they would like
PayloadO == [PayloadE EXCEPT !.preferredRole = "Owner"]

Payloads == {PayloadA, PayloadB, PayloadE, PayloadO}

----------------------------------------------------------------------------
(* Request bodies of Create project, and the query parameters of List *)

\* durationWeeks: absent (SQL NULL, null in the file), or a number
NoWeeks == <<>>
Weeks(n) == <<n>>

\* the listing fields of a body whose required fields are present
BodyGo ==
  [title |-> <<"G", "o">>, shortDescription |-> <<"a", "p", "i">>,
   category |-> "Web", difficulty |-> "Easy", status |-> "Open",
   durationWeeks |-> Weeks(6),
   requiredSkills |-> [kind |-> "array", items |-> << <<"g", "o">>, <<SP, "T", "S">>, <<"g", "o">> >>]]

BodyTs ==
  [title |-> <<"T", "S">>, shortDescription |-> <<"G", "o", SP, "t", "o">>,
   category |-> "AI", difficulty |-> "Hard", status |-> "Closed",
   durationWeeks |-> NoWeeks,
   requiredSkills |-> [kind |-> "string", items |-> << <<"t", "s", COMMA, SP, "A", "P", "I">> >>]]

ProjectBodies == {BodyGo, BodyTs}

\* the parameters as sent: an empty string is an absent parameter
Queries == {<<>>, <<"g", "o">>, <<"T", "S">>, <<"t", "s">>, <<"t", "s", COMMA, SP, "x">>}

ListParams ==
  [q : Queries, category : {"", "All", "Web"}, difficulty : {"", "Easy"},
   status : {"", "Closed"}, maxDuration : {"", "4", "8"}]

\* Number(params.get('maxDuration'))
NumberOf(str) ==
  CASE str = "4" -> 4
    [] str = "8" -> 8

\* s.toLowerCase()
LowerChar(ch) ==
  CASE ch = "G" -> "g"
    [] ch = "T" -> "t"
    [] ch = "S" -> "s"
    [] ch = "A" -> "a"
    [] ch = "P" -> "p"
    [] ch = "I" -> "i"
    [] OTHER -> ch

Lower(str) == [i \in 1..Len(str) |-> LowerChar(str[i])]

\* s.includes(t)
Includes(str, t) == \E i \in 1..(Len(str) - Len(t) + 1) : SubSeq(str, i, i + Len(t) - 1) = t

\* xs.some((s) => s.toLowerCase().includes(t))
SomeIncludes(xs, t) == \E i \in 1..Len(xs) : Includes(Lower(xs[i]), t)

\* requiredSkills: { hasSome: terms }
HasSome(xs, terms) == \E i \in 1..Len(xs), j \in 1..Len(terms) : xs[i] = terms[j]

----------------------------------------------------------------------------
(* The relational store *)

\* rows of ProjectMember for one (userId, projectId)
RowsOf(ms, u, p) == {m \in ms : m.userId = u /\ m.projectId = p}

\* project.findUnique({ where: { id } }) : the rows found (none or one)
ProjectFindUnique(ps, pid) == {p \in ps : p.id = pid}

CreatorOf(ps, pid) == (CHOOSE p \in ps : p.id = pid).creatorId

\* primary key of a new ProjectMember row
FreshId(ms, u, p) ==
  <<u, p, CHOOSE k \in 1..(Cardinality(ms) + 1) : \A m \in ms : m.id # <<u, p, k>> >>

\* variant: the table without ProjectMember_projectId_fkey
MemberFKOk_UserOnly(us, ps, u, p) == u \in us

\* the foreign keys of ProjectMember
MemberFKOk(us, ps, u, p) == u \in us /\ ProjectFindUnique(ps, p) # {}

\* variant: the table without its unique index
MemberUniqueOk_NoIndex(ms, u, p) == TRUE

\* the unique index ProjectMember_userId_projectId_key
MemberUniqueOk(ms, u, p) == RowsOf(ms, u, p) = {}

\* a new row: the columns given, the others at their column defaults
NewMember(ms, u, p, role, app) ==
  [id |-> FreshId(ms, u, p), userId |-> u, projectId |-> p, role |-> role,
   status |-> "APPLIED", acceptedAt |-> NoDate,
   fullName |-> app.fullName, contactInfo |-> app.contactInfo,
   portfolioUrl |-> app.portfolioUrl, skills |-> app.skills,
   preferredRole |-> app.preferredRole, availability |-> app.availability,
   motivation |-> app.motivation, agreedToGuidelines |-> app.agreedToGuidelines]

\* the application columns of a row created without them
NoApplication ==
  [fullName |-> Null, contactInfo |-> Null, portfolioUrl |-> Null, skills |-> <<>>,
   preferredRole |-> Null, availability |-> Null, motivation |-> Null,
   agreedToGuidelines |-> FALSE]

\* variant: an insert checked against the foreign keys only
MemberCreateOk_FKOnly(us, ps, ms, u, p) == MemberFKOk(us, ps, u, p)

\* projectMember.create({ data }) : can the insert go through
MemberCreateOk(us, ps, ms, u, p) == MemberFKOk(us, ps, u, p) /\ MemberUniqueOk(ms, u, p)

\* the data object of the upsert: an undefined field is left out by Prisma
ApplicationData(payload, agreed) ==
  [fullName |-> OrUndefined(payload.fullName),
   contactInfo |-> OrUndefined(payload.contactInfo),
   portfolioUrl |-> OrUndefined(payload.portfolioUrl),
   skills |-> NormSkills(payload.skills),
   preferredRole |-> OrUndefined(payload.preferredRole),
   availability |-> OrUndefined(payload.availability),
   motivation |-> OrUndefined(payload.motivation),
   agreedToGuidelines |-> agreed]

\* role: preferredRole || 'Contributor'
DefaultRole(payload) == IF payload.preferredRole = "" THEN "Contributor" ELSE payload.preferredRole

\* variant: an update that writes every field of data, undefined ones as NULL
UpdateApplication_Overwrite(m, data) ==
  [m EXCEPT
     !.fullName = data.fullName,
     !.contactInfo = data.contactInfo,
     !.portfolioUrl = data.portfolioUrl,
     !.skills = data.skills,
     !.preferredRole = data.preferredRole,
     !.availability = data.availability,
     !.motivation = data.motivation,
     !.agreedToGuidelines = data.agreedToGuidelines]

\* variant: an update that also puts the row back to APPLIED
UpdateApplication_Reset(m, data) ==
  [m EXCEPT
     !.status = "APPLIED",
     !.acceptedAt = NoDate,
     !.fullName = IF data.fullName = Null THEN @ ELSE data.fullName,
     !.contactInfo = IF data.contactInfo = Null THEN @ ELSE data.contactInfo,
     !.portfolioUrl = IF data.portfolioUrl = Null THEN @ ELSE data.portfolioUrl,
     !.skills = data.skills,
     !.preferredRole = IF data.preferredRole = Null THEN @ ELSE data.preferredRole,
     !.availability = IF data.availability = Null THEN @ ELSE data.availability,
     !.motivation = IF data.motivation = Null THEN @ ELSE data.motivation,
     !.agreedToGuidelines = data.agreedToGuidelines]

\* update branch of the upsert: undefined fields keep the stored value
UpdateApplication(m, data) ==
  [m EXCEPT
     !.fullName = IF data.fullName = Null THEN @ ELSE data.fullName,
     !.contactInfo = IF data.contactInfo = Null THEN @ ELSE data.contactInfo,
     !.portfolioUrl = IF data.portfolioUrl = Null THEN @ ELSE data.portfolioUrl,
     !.skills = data.skills,
     !.preferredRole = IF data.preferredRole = Null THEN @ ELSE data.preferredRole,
     !.availability = IF data.availability = Null THEN @ ELSE data.availability,
     !.motivation = IF data.motivation = Null THEN @ ELSE data.motivation,
     !.agreedToGuidelines = data.agreedToGuidelines]

\* projectMember.upsert({ where: { userId_projectId }, update, create })
MemberUpsert(ms, u, p, payload, agreed) ==
  IF RowsOf(ms, u, p) # {}
  THEN {IF m.userId = u /\ m.projectId = p
        THEN UpdateApplication(m, ApplicationData(payload, agreed)) ELSE m : m \in ms}
  ELSE ms \cup {NewMember(ms, u, p, DefaultRole(payload), ApplicationData(payload, agreed))}

\* the upsert throws when its insert would violate a foreign key
MemberUpsertOk(us, ps, ms, u, p) == RowsOf(ms, u, p) # {} \/ MemberFKOk(us, ps, u, p)

----------------------------------------------------------------------------
(* The store as one value, and the result of a handler: the store it leaves *)
(* and the response it sends                                               *)

Store ==
  [users |-> users, projects |-> projects, members |-> members, nextPid |-> nextPid,
   skills |-> skills, nextSid |-> nextSid, file |-> file, pushed |-> pushed]

\* a success response, and an error response { error } with its HTTP status
\* items: the ids of the array a list handler returns, in its order
Reply(op, status) ==
  [op |-> op, status |-> status, error |-> "", applicationSaved |-> FALSE, items |-> <<>>]

Fail(op, status, error) ==
  [op |-> op, status |-> status, error |-> error, applicationSaved |-> FALSE, items |-> <<>>]

Result(s, r) == [store |-> s, resp |-> r]

----------------------------------------------------------------------------
(* POST /api/projects : Create project *)

\* user.upsert({ where: { id }, update: {}, create: { id, email } })
UserUpsert(us, u, throws) == IF throws THEN us ELSE us \cup {u}

\* the foreign key Project_creatorId_fkey
ProjectCreateOk(us, creatorId) == creatorId \in us

\* the creator's ProjectMember row: { userId: creatorId, projectId: pid, role: 'Owner' }
OwnerMember(ms, creatorId, pid) == NewMember(ms, creatorId, pid, "Owner", NoApplication)

\* body.requiredSkills is an array of strings, one string, or anything else
NormalizedSkills(requiredSkills) ==
  IF requiredSkills.kind = "array" THEN FilterBoolean(MapTrim(requiredSkills.items))
  ELSE IF requiredSkills.kind = "string"
  THEN FilterBoolean(MapTrim(Split(requiredSkills.items[1])))
  ELSE <<>>

\* the Project row, and the item of the file, made from a body
NewProject(pid, creatorId, body) ==
  [id |-> pid, creatorId |-> creatorId,
   title |-> body.title, shortDescription |-> body.shortDescription,
   category |-> body.category, difficulty |-> body.difficulty, status |-> body.status,
   durationWeeks |-> body.durationWeeks,
   requiredSkills |-> NormalizedSkills(body.requiredSkills)]

\* the handler reads creatorId from the body and never asks for the session;
\* fieldsPresent: title, shortDescription, description, category and difficulty
\* are all there
CreateProjectCall(s, creatorId, fieldsPresent, body, userUpsertThrows, ownerCreateThrows) ==
  IF ~fieldsPresent \/ creatorId = Null
  THEN Result(s, Fail("create", 400, "Missing required fields"))
  ELSE LET us1 == UserUpsert(s.users, creatorId, userUpsertThrows)
           pid == s.nextPid
           ps1 == s.projects \cup {NewProject(pid, creatorId, body)}
           ms1 == IF ~ownerCreateThrows /\ MemberCreateOk(us1, ps1, s.members, creatorId, pid)
                  THEN s.members \cup {OwnerMember(s.members, creatorId, pid)}
                  ELSE s.members
       IN IF ~ProjectCreateOk(us1, creatorId)
          THEN Result([s EXCEPT !.users = us1], Fail("create", 500, "Failed to create project"))
          ELSE Result([s EXCEPT !.users = us1, !.projects = ps1, !.members = ms1,
                                !.nextPid = pid + 1],
                      Reply("create", 201))

\* without the Project model: the new item goes to the front of the file
CreateProjectFileCall(s, creatorId, fieldsPresent, body) ==
  IF ~fieldsPresent \/ creatorId = Null
  THEN Result(s, Fail("create", 400, "Missing required fields"))
  ELSE Result([s EXCEPT !.file = <<NewProject(s.nextPid, creatorId, body)>> \o @,
                        !.nextPid = @ + 1],
              Reply("create", 201))

----------------------------------------------------------------------------
(* DELETE /api/projects : Delete project *)

\* projectMember.deleteMany({ where: { projectId } })
MemberDeleteManyOfProject(ms, pid) == {m \in ms : m.projectId # pid}

\* project.delete({ where: { id } })
ProjectDelete(ps, pid) == {p \in ps : p.id # pid}

\* variant: a foreign key without ON DELETE CASCADE that lets the delete through
CascadeMembers_None(ps, ms) == ms

\* ON DELETE CASCADE of ProjectMember_projectId_fkey
CascadeMembers(ps, ms) == {m \in ms : ProjectFindUnique(ps, m.projectId) # {}}

\* variant: no comparison with the creator
IsCreator_Unchecked(ps, pid, caller) == TRUE

\* variant: any signed-in caller passes
IsCreator_AnySignedIn(ps, pid, caller) == caller # Null

\* variant: the authority is tied to one user, whoever created the project
IsCreator_FirstUser(ps, pid, caller) == caller = "u1"

\* existing.creatorId !== user.id
IsCreator(ps, pid, caller) == CreatorOf(ps, pid) = caller

DeleteProjectCall(s, caller, pid, deleteManyThrows) ==
  IF pid = NoId THEN Result(s, Fail("delete", 400, "Project id required"))
  ELSE IF caller = Null THEN Result(s, Fail("delete", 401, "Unauthorized"))
  ELSE IF ProjectFindUnique(s.projects, pid) = {} THEN Result(s, Fail("delete", 404, "Not found"))
  ELSE IF ~IsCreator(s.projects, pid, caller) THEN Result(s, Fail("delete", 403, "Forbidden"))
  ELSE LET ms1 == IF deleteManyThrows THEN s.members
                  ELSE MemberDeleteManyOfProject(s.members, pid)
           ps1 == ProjectDelete(s.projects, pid)
       IN Result([s EXCEPT !.projects = ps1, !.members = CascadeMembers(ps1, ms1)],
                 Reply("delete", 200))

\* items.find((i) => i.id === projectId)
FileFind(items, pid) == {i \in 1..Len(items) : items[i].id = pid}

\* items.filter((i) => i.id !== projectId)
FileWithout(items, pid) == SelectSeq(items, LAMBDA p : p.id # pid)

\* found.creator && String(found.creator.id) !== String(user.id)
FileIsCreator(items, pid, caller) == \A i \in FileFind(items, pid) : items[i].creatorId = caller

\* without the Project model
DeleteProjectFileCall(s, caller, pid) ==
  IF pid = NoId THEN Result(s, Fail("delete", 400, "Project id required"))
  ELSE IF caller = Null THEN Result(s, Fail("delete", 401, "Unauthorized"))
  ELSE IF FileFind(s.file, pid) = {} THEN Result(s, Fail("delete", 404, "Not found"))
  ELSE IF ~FileIsCreator(s.file, pid, caller) THEN Result(s, Fail("delete", 403, "Forbidden"))
  ELSE Result([s EXCEPT !.file = FileWithout(@, pid)], Reply("delete", 200))

----------------------------------------------------------------------------
(* POST /api/projects/join : Apply *)

\* the minimal row of the fallback: { userId, projectId, role }
MinimalMember(ms, u, pid, payload) == NewMember(ms, u, pid, DefaultRole(payload), NoApplication)

\* the fallback after a failed upsert: findFirst, then a minimal create
ApplyFallback(s, us1, caller, pid, payload) ==
  IF RowsOf(s.members, caller, pid) # {}
  THEN Result([s EXCEPT !.users = us1], Reply("apply", 200))
  ELSE IF MemberCreateOk(us1, s.projects, s.members, caller, pid)
  THEN Result([s EXCEPT !.users = us1,
                        !.members = @ \cup {MinimalMember(s.members, caller, pid, payload)}],
              Reply("apply", 200))
  ELSE Result([s EXCEPT !.users = us1], Fail("apply", 500, "Failed to apply"))

\* variant: the User row is upserted before the project is looked up
ApplyCall_UpsertFirst(s, caller, pid, payload, agreedRaw, userUpsertThrows, upsertThrows) ==
  LET agreedToGuidelines == ToBoolean(agreedRaw)
      us1 == UserUpsert(s.users, caller, userUpsertThrows)
  IN
  IF caller = Null THEN Result(s, Fail("apply", 401, "Unauthorized"))
  ELSE IF pid = NoId THEN Result(s, Fail("apply", 400, "projectId required"))
  ELSE IF ~agreedToGuidelines THEN Result(s, Fail("apply", 400, "You must agree to guidelines"))
  ELSE IF ProjectFindUnique(s.projects, pid) = {}
  THEN Result([s EXCEPT !.users = us1], Fail("apply", 404, "Project not found"))
  ELSE IF ~upsertThrows /\ MemberUpsertOk(us1, s.projects, s.members, caller, pid)
  THEN Result([s EXCEPT !.users = us1,
                        !.members = MemberUpsert(@, caller, pid, payload, agreedToGuidelines)],
              [Reply("apply", 200) EXCEPT !.applicationSaved = TRUE])
  ELSE ApplyFallback(s, us1, caller, pid, payload)

ApplyCall(s, caller, pid, payload, agreedRaw, userUpsertThrows, upsertThrows) ==
  LET agreedToGuidelines == ToBoolean(agreedRaw) IN
  IF caller = Null THEN Result(s, Fail("apply", 401, "Unauthorized"))
  ELSE IF pid = NoId THEN Result(s, Fail("apply", 400, "projectId required"))
  ELSE IF ~agreedToGuidelines THEN Result(s, Fail("apply", 400, "You must agree to guidelines"))
  ELSE IF ProjectFindUnique(s.projects, pid) = {} THEN Result(s, Fail("apply", 404, "Project not found"))
  ELSE LET us1 == UserUpsert(s.users, caller, userUpsertThrows)
       IN IF ~upsertThrows /\ MemberUpsertOk(us1, s.projects, s.members, caller, pid)
          THEN Result([s EXCEPT !.users = us1,
                                !.members = MemberUpsert(@, caller, pid, payload, agreedToGuidelines)],
                      [Reply("apply", 200) EXCEPT !.applicationSaved = TRUE])
          ELSE ApplyFallback(s, us1, caller, pid, payload)

----------------------------------------------------------------------------
(* PATCH /api/projects/member : Respond *)

\* the action parameter as sent, and .toLowerCase()
Actions == {"accept", "ACCEPT", "reject", "withdraw", ""}

ToLowerCase(a) ==
  CASE a = "ACCEPT" -> "accept"
    [] OTHER -> a

\* variant: any action word goes on to the update
ValidAction_Any(action) == TRUE

\* action === 'accept', else action === 'reject', else 'Invalid action'
ValidAction(action) == action \in {"accept", "reject"}

\* variant: a reject puts the row back among the applications
RespondStatus_Reopen(action) == IF action = "accept" THEN "ACCEPTED" ELSE "APPLIED"

\* the columns the update writes: data.status, and data.acceptedAt on accept only
RespondStatus(action) == IF action = "accept" THEN "ACCEPTED" ELSE "REJECTED"

\* variant: every response stamps the row
RespondAcceptedAt_Always(action, old, now) == Date(now)

\* acceptedAt: new Date() on accept, else left out of data
RespondAcceptedAt(action, old, now) == IF action = "accept" THEN Date(now) ELSE old

\* variant: an update that writes the whole row, the application columns at
\* their defaults
MemberUpdate_WholeRow(ms, u, pid, action, now) ==
  {IF m.userId = u /\ m.projectId = pid
   THEN [m EXCEPT !.status = RespondStatus(action),
                  !.acceptedAt = RespondAcceptedAt(action, @, now),
                  !.fullName = Null, !.contactInfo = Null, !.portfolioUrl = Null,
                  !.skills = <<>>, !.preferredRole = Null, !.availability = Null,
                  !.motivation = Null, !.agreedToGuidelines = FALSE]
   ELSE m : m \in ms}

\* projectMember.update({ where: { userId_projectId }, data })
MemberUpdate(ms, u, pid, action, now) ==
  {IF m.userId = u /\ m.projectId = pid
   THEN [m EXCEPT !.status = RespondStatus(action),
                  !.acceptedAt = RespondAcceptedAt(action, @, now)]
   ELSE m : m \in ms}

\* now is the server time read by new Date()
RespondCall(s, caller, pid, target, rawAction, now) ==
  LET action == ToLowerCase(rawAction) IN
  IF pid = NoId \/ target = Null \/ action = ""
  THEN Result(s, Fail("respond", 400, "projectId, userId and action required"))
  ELSE IF caller = Null THEN Result(s, Fail("respond", 401, "Unauthorized"))
  ELSE IF ProjectFindUnique(s.projects, pid) = {} THEN Result(s, Fail("respond", 404, "Project not found"))
  ELSE IF ~IsCreator(s.projects, pid, caller) THEN Result(s, Fail("respond", 403, "Forbidden"))
  ELSE IF ~ValidAction(action) THEN Result(s, Fail("respond", 400, "Invalid action"))
  ELSE IF RowsOf(s.members, target, pid) = {}
  THEN \* the update throws: no record to update
       Result(s, Fail("respond", 500, "Failed to update member status"))
  ELSE Result([s EXCEPT !.members = MemberUpdate(@, target, pid, action, now)],
              Reply("respond", 200))

----------------------------------------------------------------------------
(* DELETE /api/projects/member : Remove *)

\* variant: no check of the caller against the creator or the target
MayRemove_Anyone(ps, pid, caller, target) == TRUE

\* variant: the self test the wrong way round
MayRemove_NotSelf(ps, pid, caller, target) == IsCreator(ps, pid, caller) \/ target # caller

\* project.creatorId !== user.id && memberId !== user.id  => Forbidden
MayRemove(ps, pid, caller, target) == IsCreator(ps, pid, caller) \/ target = caller

\* variant: a deleteMany that deletes nothing
MemberDeleteMany_Nothing(ms, pid, u) == ms

\* projectMember.deleteMany({ where: { projectId, userId: memberId } })
MemberDeleteMany(ms, pid, u) == {m \in ms : ~(m.projectId = pid /\ m.userId = u)}

RemoveCall(s, caller, pid, target) ==
  IF pid = NoId \/ target = Null THEN Result(s, Fail("remove", 400, "projectId and userId (member) required"))
  ELSE IF caller = Null THEN Result(s, Fail("remove", 401, "Unauthorized"))
  ELSE IF ProjectFindUnique(s.projects, pid) = {} THEN Result(s, Fail("remove", 404, "Project not found"))
  ELSE IF ~MayRemove(s.projects, pid, caller, target) THEN Result(s, Fail("remove", 403, "Forbidden"))
  ELSE Result([s EXCEPT !.members = MemberDeleteMany(@, pid, target)], Reply("remove", 200))

----------------------------------------------------------------------------
(* GET /api/projects : List *)

\* the where object of findMany; a NULL durationWeeks is not lte anything
WhereMatches(p, params) ==
  /\ params.q # <<>> =>
       \/ Includes(Lower(p.title), Lower(params.q))
       \/ Includes(Lower(p.shortDescription), Lower(params.q))
       \/ HasSome(p.requiredSkills, MapTrim(Split(params.q)))
  /\ params.category \notin {"", "All"} => p.category = params.category
  /\ params.difficulty \notin {"", "All"} => p.difficulty = params.difficulty
  /\ params.status \notin {"", "All"} => p.status = params.status
  /\ params.maxDuration # "" =>
       p.durationWeeks # NoWeeks /\ p.durationWeeks[1] <= NumberOf(params.maxDuration)

\* orderBy: { createdAt: 'desc' } ; ids are handed out in creation order
RECURSIVE NewestFirst(_)
NewestFirst(ids) ==
  IF ids = {} THEN <<>>
  ELSE LET newest == CHOOSE x \in ids : \A y \in ids : y <= x
       IN <<newest>> \o NewestFirst(ids \ {newest})

\* findMany throws when the store cannot be reached: the handler answers []
ListCall(s, params, findManyThrows) ==
  IF findManyThrows THEN Result(s, Reply("list", 200))
  ELSE Result(s, [Reply("list", 200) EXCEPT
                    !.items = NewestFirst({p.id : p \in {x \in s.projects : WhereMatches(x, params)}})])

\* the test of applyFiltersToArray: an item is kept unless a filter drops it
FilterKeeps(p, params) ==
  /\ params.q # <<>> =>
       \/ SomeIncludes(p.requiredSkills, Lower(params.q))
       \/ Includes(Lower(p.title), Lower(params.q))
       \/ Includes(Lower(p.shortDescription), Lower(params.q))
  /\ ~(params.category # "" /\ params.category # "All" /\ p.category # params.category)
  /\ ~(params.difficulty # "" /\ params.difficulty # "All" /\ p.difficulty # params.difficulty)
  /\ ~(params.status # "" /\ params.status # "All" /\ p.status # params.status)
  /\ ~(params.maxDuration # "" /\ p.durationWeeks # NoWeeks
         /\ p.durationWeeks[1] > NumberOf(params.maxDuration))

applyFiltersToArray(items, params) == SelectSeq(items, LAMBDA p : FilterKeeps(p, params))

\* without the Project model
ListFileCall(s, params) ==
  LET filtered == applyFiltersToArray(s.file, params)
  IN Result(s, [Reply("list", 200) EXCEPT !.items = [i \in 1..Len(filtered) |-> filtered[i].id]])

----------------------------------------------------------------------------
(* /api/user-skills : Skill create, Skill delete, Skill list *)

\* { name, level, category, type } of the body
SkillBodyTs == [name |-> "TypeScript", level |-> "Expert", category |-> "Web", type |-> "taught"]
SkillBodyNoName == [name |-> "", level |-> "Beginner", category |-> "Web", type |-> "learned"]
\* a field that is absent or the empty string reads as "": both are falsy
SkillBodies ==
  {SkillBodyTs, SkillBodyNoName,
   [SkillBodyTs EXCEPT !.level = ""], [SkillBodyTs EXCEPT !.category = ""],
   [SkillBodyTs EXCEPT !.type = ""]}

\* !name || !level || !category || !type
MissingFields_NameOnly(body) == body.name = ""

MissingFields(body) ==
  body.name = "" \/ body.level = "" \/ body.category = "" \/ body.type = ""

\* skill ids of a request: absent, or one of the ids handed out so far or next
NoSid == 0
SIDs == 1..MaxSkills

\* the foreign key Skill_userId_fkey
SkillCreateOk(us, u) == u \in us

\* what the handler posts to the notifier: the event and the id of its data
SkillEvent(event, sid) == [event |-> event, id |-> sid]

\* the post to /notify-skill-change in its own try/catch: the notifier receives
\* the event, or the fetch throws and the handler logs and goes on
Notify_Uncaught(r, event, notifyThrows) ==
  IF notifyThrows THEN Result(r.store, Fail(r.resp.op, 500, "Failed"))
  ELSE Result([r.store EXCEPT !.pushed = @ \cup {event}], r.resp)

Notify(r, event, notifyThrows) ==
  IF notifyThrows THEN r
  ELSE Result([r.store EXCEPT !.pushed = @ \cup {event}], r.resp)

SkillCreateCall(s, caller, body, notifyThrows) ==
  IF caller = Null THEN Result(s, Fail("skillCreate", 401, "Unauthorized"))
  ELSE IF MissingFields(body)
  THEN Result(s, Fail("skillCreate", 400, "Missing required fields"))
  ELSE IF ~SkillCreateOk(s.users, caller)
  THEN Result(s, Fail("skillCreate", 500, "Failed to add skill."))
  ELSE Notify(Result([s EXCEPT !.skills = @ \cup {[id |-> s.nextSid, userId |-> caller,
                                                   name |-> body.name, level |-> body.level,
                                                   category |-> body.category,
                                                   type |-> body.type]},
                               !.nextSid = @ + 1],
                     Reply("skillCreate", 201)),
              SkillEvent("skillAdded", s.nextSid), notifyThrows)

\* skill.delete({ where: { id, userId } }) : the rows it matches (none or one)
SkillFind(sk, sid, u) == {x \in sk : x.id = sid /\ x.userId = u}

\* delete throws when it matches no row: the handler's catch answers 500
SkillDeleteCall(s, caller, sid, notifyThrows) ==
  IF caller = Null THEN Result(s, Fail("skillDelete", 401, "Unauthorized"))
  ELSE IF sid = NoSid THEN Result(s, Fail("skillDelete", 400, "Missing skill ID"))
  ELSE IF SkillFind(s.skills, sid, caller) = {}
  THEN Result(s, Fail("skillDelete", 500, "Failed to delete skill."))
  ELSE Notify(Result([s EXCEPT !.skills = @ \ SkillFind(@, sid, caller)],
                     Reply("skillDelete", 200)),
              SkillEvent("skillRemoved", sid), notifyThrows)

\* skill.findMany({ where: { userId } }) : the caller's rows, oldest first
SkillListCall(s, caller) ==
  IF caller = Null THEN Result(s, Fail("skillList", 401, "Unauthorized"))
  ELSE LET mine == NewestFirst({x.id : x \in {y \in s.skills : y.userId = caller}})
       IN Result(s, [Reply("skillList", 200) EXCEPT
                       !.items = [i \in 1..Len(mine) |-> mine[Len(mine) + 1 - i]]])

----------------------------------------------------------------------------
(* Requests in flight: the handler's position and the locals it holds *)

Req(op, pc, caller, pid, target, action, payload, now) ==
  [op |-> op, pc |-> pc, caller |-> caller, pid |-> pid, target |-> target,
   action |-> action, payload |-> payload, now |-> now]

\* the requests in flight: a bag, two requests may be equal in everything
NoRequests == EmptyBag

----------------------------------------------------------------------------
(* Requests are handled one at a time, with any parameters *)

Init ==
  /\ users = {}
  /\ projects = {}
  /\ members = {}
  /\ nextPid = 1
  /\ clock = 1
  /\ resp = Reply("none", 0)
  /\ inflight = NoRequests
  /\ skills = {}
  /\ nextSid = 1
  /\ file = <<>>
  /\ hasProjectModel \in BOOLEAN
  /\ pushed = {}
  /\ learned = <<>> /\ taught = <<>>
  /\ nextTemp = 1
  /\ posts = {} /\ responses = {} /\ emitted = {}

\* the handler's writes reach the store and its response is sent;
\* every handled request takes one tick of the server clock
Commit(r) ==
  /\ clock' = clock + 1
  /\ users' = r.store.users
  /\ projects' = r.store.projects
  /\ members' = r.store.members
  /\ nextPid' = r.store.nextPid
  /\ resp' = r.resp
  /\ skills' = r.store.skills
  /\ nextSid' = r.store.nextSid
  /\ file' = r.store.file
  /\ pushed' = r.store.pushed
  /\ UNCHANGED <<inflight, hasProjectModel, dashboard>>

PidParams == PIDs \cup {NoId}

CreateProject ==
  \E creatorId \in Callers, fieldsPresent \in BOOLEAN, body \in ProjectBodies,
     userUpsertThrows \in BOOLEAN, ownerCreateThrows \in BOOLEAN :
    /\ clock <= MaxRequests
    /\ nextPid <= MaxProjects
    /\ hasProjectModel
    /\ Commit(CreateProjectCall(Store, creatorId, fieldsPresent, body,
                                userUpsertThrows, ownerCreateThrows))

DeleteProject ==
  \E caller \in Callers, pid \in PidParams, deleteManyThrows \in BOOLEAN :
    /\ clock <= MaxRequests
    /\ hasProjectModel
    /\ Commit(DeleteProjectCall(Store, caller, pid, deleteManyThrows))

\* without the Project model the membership handlers answer 501 after their
\* first checks and touch neither the store nor the file: not modelled
Apply ==
  \E caller \in Callers, pid \in PidParams, payload \in Payloads, agreedRaw \in AgreedValues,
     userUpsertThrows \in BOOLEAN, upsertThrows \in BOOLEAN :
    /\ clock <= MaxRequests
    /\ hasProjectModel
    /\ Commit(ApplyCall(Store, caller, pid, payload, agreedRaw, userUpsertThrows, upsertThrows))

Respond ==
  \E caller \in Callers, pid \in PidParams, target \in Callers, rawAction \in Actions :
    /\ clock <= MaxRequests
    /\ hasProjectModel
    /\ Commit(RespondCall(Store, caller, pid, target, rawAction, clock))

Remove ==
  \E caller \in Callers, pid \in PidParams, target \in Callers :
    /\ clock <= MaxRequests
    /\ hasProjectModel
    /\ Commit(RemoveCall(Store, caller, pid, target))

List ==
  \E params \in ListParams, findManyThrows \in BOOLEAN :
    /\ clock <= MaxRequests
    /\ hasProjectModel
    /\ Commit(ListCall(Store, params, findManyThrows))

SidParams == SIDs \cup {NoSid}

SkillCreate ==
  \E caller \in Callers, body \in SkillBodies, notifyThrows \in BOOLEAN :
    /\ clock <= MaxRequests
    /\ nextSid <= MaxSkills
    /\ Commit(SkillCreateCall(Store, caller, body, notifyThrows))

SkillDelete ==
  \E caller \in Callers, sid \in SidParams, notifyThrows \in BOOLEAN :
    /\ clock <= MaxRequests
    /\ Commit(SkillDeleteCall(Store, caller, sid, notifyThrows))

SkillList ==
  \E caller \in Callers :
    /\ clock <= MaxRequests
    /\ Commit(SkillListCall(Store, caller))

\* the project handlers without the Project model
CreateProjectFile ==
  \E creatorId \in Callers, fieldsPresent \in BOOLEAN, body \in ProjectBodies :
    /\ clock <= MaxRequests
    /\ nextPid <= MaxProjects
    /\ ~hasProjectModel
    /\ Commit(CreateProjectFileCall(Store, creatorId, fieldsPresent, body))

DeleteProjectFile ==
  \E caller \in Callers, pid \in PidParams :
    /\ clock <= MaxRequests
    /\ ~hasProjectModel
    /\ Commit(DeleteProjectFileCall(Store, caller, pid))

ListFile ==
  \E params \in ListParams :
    /\ clock <= MaxRequests
    /\ ~hasProjectModel
    /\ Commit(ListFileCall(Store, params))

Next ==
  \/ CreateProject
  \/ DeleteProject
  \/ Apply
  \/ Respond
  \/ Remove
  \/ List
  \/ SkillCreate
  \/ SkillDelete
  \/ SkillList
  \/ CreateProjectFile
  \/ DeleteProjectFile
  \/ ListFile

Spec == Init /\ [][Next]_vars

----------------------------------------------------------------------------
(* Requests are handled concurrently.  A request is in flight from the      *)
(* checks it passes before its first store call until its response; each    *)
(* step below runs one store call and the code up to the next one.  These   *)
(* are the handlers that write Project and ProjectMember rows, with the     *)
(* Project model.                                                           *)

\* what these handlers never touch
untouched == <<skills, nextSid, file, hasProjectModel, pushed, dashboard>>

\* a request arrives: one tick of the server clock
Arrives ==
  /\ hasProjectModel
  /\ BagCardinality(inflight) < MaxInFlight
  /\ clock <= MaxRequests
  /\ clock' = clock + 1

\* answered before any store call
Answer(r) == resp' = r /\ UNCHANGED <<users, projects, members, nextPid, inflight, untouched>>

\* the handler goes on to its first store call
Begin(r) ==
  /\ inflight' = inflight (+) SetToBag({r})
  /\ UNCHANGED <<users, projects, members, nextPid, resp, untouched>>

InFlight == BagToSet(inflight)

At(r, op, pc) == r.op = op /\ r.pc = pc

Becomes(r, r2) ==
  /\ inflight' = (inflight (-) SetToBag({r})) (+) SetToBag({r2})
  /\ UNCHANGED <<resp, untouched>>

Goto(r, pc) == Becomes(r, [r EXCEPT !.pc = pc])

Done(r, answer) ==
  /\ inflight' = inflight (-) SetToBag({r})
  /\ resp' = answer
  /\ UNCHANGED untouched

\* POST /api/projects/join
ApplyStart ==
  \E caller \in Callers, pid \in PidParams, payload \in Payloads, agreedRaw \in AgreedValues :
    /\ Arrives
    /\ IF caller = Null THEN Answer(Fail("apply", 401, "Unauthorized"))
       ELSE IF pid = NoId THEN Answer(Fail("apply", 400, "projectId required"))
       ELSE IF ~ToBoolean(agreedRaw) THEN Answer(Fail("apply", 400, "You must agree to guidelines"))
       ELSE Begin(Req("apply", "findUnique", caller, pid, Null, "", payload, 0))

ApplyFindUnique ==
  \E r \in InFlight :
    /\ At(r, "apply", "findUnique")
    /\ IF ProjectFindUnique(projects, r.pid) = {}
       THEN Done(r, Fail("apply", 404, "Project not found"))
       ELSE Goto(r, "userUpsert")
    /\ UNCHANGED <<users, projects, members, nextPid, clock>>

ApplyUserUpsert ==
  \E r \in InFlight, throws \in BOOLEAN :
    /\ At(r, "apply", "userUpsert")
    /\ users' = UserUpsert(users, r.caller, throws)
    /\ Goto(r, "upsert")
    /\ UNCHANGED <<projects, members, nextPid, clock>>

ApplyUpsert ==
  \E r \in InFlight, throws \in BOOLEAN :
    /\ At(r, "apply", "upsert")
    /\ IF ~throws /\ MemberUpsertOk(users, projects, members, r.caller, r.pid)
       THEN /\ members' = MemberUpsert(members, r.caller, r.pid, r.payload, TRUE)
            /\ Done(r, [Reply("apply", 200) EXCEPT !.applicationSaved = TRUE])
       ELSE /\ UNCHANGED members
            /\ Goto(r, "findFirst")
    /\ UNCHANGED <<users, projects, nextPid, clock>>

ApplyFindFirst ==
  \E r \in InFlight :
    /\ At(r, "apply", "findFirst")
    /\ IF RowsOf(members, r.caller, r.pid) # {}
       THEN Done(r, Reply("apply", 200))
       ELSE Goto(r, "create")
    /\ UNCHANGED <<users, projects, members, nextPid, clock>>

ApplyCreate ==
  \E r \in InFlight :
    /\ At(r, "apply", "create")
    /\ IF MemberCreateOk(users, projects, members, r.caller, r.pid)
       THEN /\ members' = members \cup {MinimalMember(members, r.caller, r.pid, r.payload)}
            /\ Done(r, Reply("apply", 200))
       ELSE /\ UNCHANGED members
            /\ Done(r, Fail("apply", 500, "Failed to apply"))
    /\ UNCHANGED <<users, projects, nextPid, clock>>

\* PATCH /api/projects/member
RespondStart ==
  \E caller \in Callers, pid \in PidParams, target \in Callers, rawAction \in Actions :
    LET action == ToLowerCase(rawAction) IN
    /\ Arrives
    /\ IF pid = NoId \/ target = Null \/ action = ""
       THEN Answer(Fail("respond", 400, "projectId, userId and action required"))
       ELSE IF caller = Null THEN Answer(Fail("respond", 401, "Unauthorized"))
       ELSE Begin(Req("respond", "findUnique", caller, pid, target, action, PayloadE, 0))

RespondFindUnique ==
  \E r \in InFlight :
    /\ At(r, "respond", "findUnique")
    /\ IF ProjectFindUnique(projects, r.pid) = {}
       THEN Done(r, Fail("respond", 404, "Project not found"))
       ELSE IF ~IsCreator(projects, r.pid, r.caller)
       THEN Done(r, Fail("respond", 403, "Forbidden"))
       ELSE IF ~ValidAction(r.action)
       THEN Done(r, Fail("respond", 400, "Invalid action"))
       ELSE Becomes(r, [r EXCEPT !.pc = "update", !.now = clock])
    /\ UNCHANGED <<users, projects, members, nextPid, clock>>

RespondUpdate ==
  \E r \in InFlight :
    /\ At(r, "respond", "update")
    /\ IF RowsOf(members, r.target, r.pid) = {}
       THEN /\ UNCHANGED members
            /\ Done(r, Fail("respond", 500, "Failed to update member status"))
       ELSE /\ members' = MemberUpdate(members, r.target, r.pid, r.action, r.now)
            /\ Done(r, Reply("respond", 200))
    /\ UNCHANGED <<users, projects, nextPid, clock>>

\* DELETE /api/projects/member
RemoveStart ==
  \E caller \in Callers, pid \in PidParams, target \in Callers :
    /\ Arrives
    /\ IF pid = NoId \/ target = Null
       THEN Answer(Fail("remove", 400, "projectId and userId (member) required"))
       ELSE IF caller = Null THEN Answer(Fail("remove", 401, "Unauthorized"))
       ELSE Begin(Req("remove", "findUnique", caller, pid, target, "", PayloadE, 0))

RemoveFindUnique ==
  \E r \in InFlight :
    /\ At(r, "remove", "findUnique")
    /\ IF ProjectFindUnique(projects, r.pid) = {}
       THEN Done(r, Fail("remove", 404, "Project not found"))
       ELSE IF ~MayRemove(projects, r.pid, r.caller, r.target)
       THEN Done(r, Fail("remove", 403, "Forbidden"))
       ELSE Goto(r, "deleteMany")
    /\ UNCHANGED <<users, projects, members, nextPid, clock>>

RemoveDeleteMany ==
  \E r \in InFlight :
    /\ At(r, "remove", "deleteMany")
    /\ members' = MemberDeleteMany(members, r.pid, r.target)
    /\ Done(r, Reply("remove", 200))
    /\ UNCHANGED <<users, projects, nextPid, clock>>

\* DELETE /api/projects
DeleteStart ==
  \E caller \in Callers, pid \in PidParams :
    /\ Arrives
    /\ IF pid = NoId THEN Answer(Fail("delete", 400, "Project id required"))
       ELSE IF caller = Null THEN Answer(Fail("delete", 401, "Unauthorized"))
       ELSE Begin(Req("delete", "findUnique", caller, pid, Null, "", PayloadE, 0))

DeleteFindUnique ==
  \E r \in InFlight :
    /\ At(r, "delete", "findUnique")
    /\ IF ProjectFindUnique(projects, r.pid) = {}
       THEN Done(r, Fail("delete", 404, "Not found"))
       ELSE IF ~IsCreator(projects, r.pid, r.caller)
       THEN Done(r, Fail("delete", 403, "Forbidden"))
       ELSE Goto(r, "deleteMany")
    /\ UNCHANGED <<users, projects, members, nextPid, clock>>

DeleteMembers ==
  \E r \in InFlight, throws \in BOOLEAN :
    /\ At(r, "delete", "deleteMany")
    /\ members' = IF throws THEN members
                  ELSE MemberDeleteManyOfProject(members, r.pid)
    /\ Goto(r, "delete")
    /\ UNCHANGED <<users, projects, nextPid, clock>>

\* project.delete throws when the row is gone: the handler's outer catch
DeleteProjectRow ==
  \E r \in InFlight :
    /\ At(r, "delete", "delete")
    /\ IF ProjectFindUnique(projects, r.pid) = {}
       THEN /\ UNCHANGED <<projects, members>>
            /\ Done(r, Fail("delete", 500, "Failed to delete project"))
       ELSE /\ projects' = ProjectDelete(projects, r.pid)
            /\ members' = CascadeMembers(ProjectDelete(projects, r.pid), members)
            /\ Done(r, Reply("delete", 200))
    /\ UNCHANGED <<users, nextPid, clock>>

\* POST /api/projects
CreatesInFlight == {r \in InFlight : r.op = "create"}

CreateStart ==
  \E creatorId \in Callers, fieldsPresent \in BOOLEAN, body \in ProjectBodies :
    /\ Arrives
    /\ nextPid + Cardinality(CreatesInFlight) <= MaxProjects
    /\ IF ~fieldsPresent \/ creatorId = Null
       THEN Answer(Fail("create", 400, "Missing required fields"))
       ELSE Begin(Req("create", "userUpsert", creatorId, NoId, Null, "", body, 0))

CreateUserUpsert ==
  \E r \in InFlight, throws \in BOOLEAN :
    /\ At(r, "create", "userUpsert")
    /\ users' = UserUpsert(users, r.caller, throws)
    /\ Goto(r, "create")
    /\ UNCHANGED <<projects, members, nextPid, clock>>

CreateProjectRow ==
  \E r \in InFlight :
    /\ At(r, "create", "create")
    /\ IF ~ProjectCreateOk(users, r.caller)
       THEN /\ UNCHANGED <<projects, nextPid>>
            /\ Done(r, Fail("create", 500, "Failed to create project"))
       ELSE /\ projects' = projects \cup {NewProject(nextPid, r.caller, r.payload)}
            /\ nextPid' = nextPid + 1
            /\ Becomes(r, [r EXCEPT !.pc = "ownerCreate", !.pid = nextPid])
    /\ UNCHANGED <<users, members, clock>>

CreateOwner ==
  \E r \in InFlight, throws \in BOOLEAN :
    /\ At(r, "create", "ownerCreate")
    /\ members' = IF ~throws /\ MemberCreateOk(users, projects, members, r.caller, r.pid)
                  THEN members \cup {OwnerMember(members, r.caller, r.pid)}
                  ELSE members
    /\ Done(r, Reply("create", 201))
    /\ UNCHANGED <<users, projects, nextPid, clock>>

NextConc ==
  \/ CreateStart \/ CreateUserUpsert \/ CreateProjectRow \/ CreateOwner
  \/ DeleteStart \/ DeleteFindUnique \/ DeleteMembers \/ DeleteProjectRow
  \/ ApplyStart \/ ApplyFindUnique \/ ApplyUserUpsert \/ ApplyUpsert
  \/ ApplyFindFirst \/ ApplyCreate
  \/ RespondStart \/ RespondFindUnique \/ RespondUpdate
  \/ RemoveStart \/ RemoveFindUnique \/ RemoveDeleteMany

SpecConc == Init /\ [][NextConc]_vars

----------------------------------------------------------------------------
(* The dashboard page of one signed-in user, the Skill create handler and   *)
(* the notifier.  The page keeps the lists learned and taught; an add puts   *)
(* the skill in its list under a temporary id and posts it; the handler     *)
(* stores it and posts the event to the notifier, which emits it to the     *)
(* connected pages; the response of the post and the emitted event reach    *)
(* the page in any order.                                                   *)

DashUser == "u1"

\* ids of list entries: uid() of the page, and the id of a stored row
TempId(k) == <<"tmp", k>>
SavedId(sid) == <<"db", sid>>

Entry(id, body) == [id |-> id, name |-> body.name, type |-> body.type]

\* what the skill form hands to handleSaveSkill
DashBodies == {SkillBodyTs, [SkillBodyTs EXCEPT !.name = "Go", !.type = "learned"], SkillBodyNoName}

\* setLearned((prev) => [skill, ...prev]), or setTaught
Prepend(e) ==
  /\ learned' = IF e.type = "learned" THEN <<e>> \o learned ELSE learned
  /\ taught' = IF e.type = "learned" THEN taught ELSE <<e>> \o taught

\* prev.map(s => s.id === tempId ? savedSkill : s)
ReplaceTemp(list, tempId, savedSkill) ==
  [i \in 1..Len(list) |-> IF list[i].id = tempId THEN savedSkill ELSE list[i]]

\* prev.filter(s => s.id !== tempId)
WithoutTemp(list, tempId) == SelectSeq(list, LAMBDA x : x.id # tempId)

\* handleSaveSkill up to its fetch: the optimistic insert and the POST
DashSave ==
  \E body \in DashBodies :
    /\ nextTemp <= MaxAdds
    /\ Prepend(Entry(TempId(nextTemp), body))
    /\ posts' = posts \cup {[tempId |-> TempId(nextTemp), body |-> body]}
    /\ nextTemp' = nextTemp + 1
    /\ UNCHANGED <<users, projects, members, nextPid, clock, resp, inflight,
                   skills, nextSid, file, hasProjectModel, pushed, responses, emitted>>

\* app.post("/notify-skill-change") : the events the notifier emits with io.emit
NotifierEmits(before, after, sk) ==
  {Entry(SavedId(x.id), x) : x \in {y \in sk : SkillEvent("skillAdded", y.id) \in after \ before}}

\* POST /api/user-skills handles a post of the page; its response is on its way,
\* and so is the event if the notifier received it
DashPost ==
  \E p \in posts, notifyThrows \in BOOLEAN :
    LET r == SkillCreateCall(Store, DashUser, p.body, notifyThrows)
        ok == r.resp.status = 201
    IN /\ posts' = posts \ {p}
       /\ users' = r.store.users /\ skills' = r.store.skills
       /\ nextSid' = r.store.nextSid /\ pushed' = r.store.pushed
       /\ resp' = r.resp
       /\ responses' = responses \cup
            {[tempId |-> p.tempId, ok |-> ok,
              savedSkill |-> Entry(IF ok THEN SavedId(nextSid) ELSE p.tempId, p.body)]}
       /\ emitted' = emitted \cup NotifierEmits(pushed, r.store.pushed, r.store.skills)
       /\ UNCHANGED <<projects, members, nextPid, clock, inflight, file, hasProjectModel,
                      learned, taught, nextTemp>>

\* handleSaveSkill after its fetch: the temporary entry becomes the saved skill,
\* or is taken out when the response is not ok
DashResponse ==
  \E a \in responses :
    /\ responses' = responses \ {a}
    /\ IF a.ok
       THEN /\ learned' = IF a.savedSkill.type = "learned"
                          THEN ReplaceTemp(learned, a.tempId, a.savedSkill) ELSE learned
            /\ taught' = IF a.savedSkill.type = "learned"
                         THEN taught ELSE ReplaceTemp(taught, a.tempId, a.savedSkill)
       ELSE /\ learned' = IF a.savedSkill.type = "learned"
                          THEN WithoutTemp(learned, a.tempId) ELSE learned
            /\ taught' = IF a.savedSkill.type = "learned"
                         THEN taught ELSE WithoutTemp(taught, a.tempId)
    /\ UNCHANGED <<users, projects, members, nextPid, clock, resp, inflight,
                   skills, nextSid, file, hasProjectModel, pushed, nextTemp, posts, emitted>>

\* socket.on("skillAdded") of the page
DashSkillAdded ==
  \E e \in emitted :
    /\ emitted' = emitted \ {e}
    /\ Prepend(e)
    /\ UNCHANGED <<users, projects, members, nextPid, clock, resp, inflight,
                   skills, nextSid, file, hasProjectModel, pushed, nextTemp, posts, responses>>

\* the page is opened by a user whose User row exists, or does not yet
InitDash ==
  /\ users \in {{}, {DashUser}}
  /\ projects = {} /\ members = {} /\ nextPid = 1
  /\ clock = 1 /\ resp = Reply("none", 0) /\ inflight = NoRequests
  /\ skills = {} /\ nextSid = 1 /\ file = <<>>
  /\ hasProjectModel \in BOOLEAN
  /\ pushed = {}
  /\ learned = <<>> /\ taught = <<>>
  /\ nextTemp = 1
  /\ posts = {} /\ responses = {} /\ emitted = {}

NextDash == DashSave \/ DashPost \/ DashResponse \/ DashSkillAdded

SpecDash == InitDash /\ [][NextDash]_vars

----------------------------------------------------------------------------
(* Properties of the handlers.  A property of "every call" is stated over  *)
(* every reachable state in which a request can still be handled, and every *)
(* parameter of the call made on it.                                        *)

CanHandle == clock <= MaxRequests

\* room for two requests in a row
CanHandleTwo == clock < MaxRequests

ExistingPIDs == {p.id : p \in projects}

\* r is the request that was just handled
Took(r) == r.store = Store' /\ r.resp = resp'

\* C1: in every state reached by Create project, Apply, Respond, Remove and Delete
\* project requests, handled one after another or interleaved at their store
\* calls, each (user, project) pair has at most one ProjectMember row; an Apply of
\* a user who has a row leaves the pair with one row.
C1_AtMostOneRow ==
  \A u \in Users, p \in PIDs : Cardinality(RowsOf(members, u, p)) <= 1

\* an Apply found no row with findFirst and is about to create one, and the row
\* of its (user, project) pair has been inserted since by another Apply (the row
\* is not the owner's, and the last response is a successful Apply)
C1_Witness ==
  /\ resp.op = "apply" /\ resp.status = 200
  /\ \E r \in InFlight :
       /\ At(r, "apply", "create")
       /\ RowsOf(members, r.caller, r.pid) # {}
       /\ \A m \in RowsOf(members, r.caller, r.pid) : m.role # "Owner"

AcceptWords == {a \in Actions : ToLowerCase(a) = "accept"}
RejectWords == {a \in Actions : ToLowerCase(a) = "reject"}

\* C3: a successful Respond on an existing membership, whatever its prior status,
\* leaves the row ACCEPTED with a non-null acceptedAt after accept, and REJECTED
\* with a null acceptedAt after reject.
C3_RespondOutcome ==
  [][(resp'.op = "respond" /\ resp'.status = 200) =>
       \A c \in Users, p \in PIDs, t \in Users, a \in Actions :
         Took(RespondCall(Store, c, p, t, a, clock)) =>
           /\ RowsOf(members', t, p) # {}
           /\ \A n \in RowsOf(members', t, p) :
                /\ a \in AcceptWords => n.status = "ACCEPTED" /\ n.acceptedAt # NoDate
                /\ a \in RejectWords => n.status = "REJECTED" /\ n.acceptedAt = NoDate]_vars

\* C4: Respond(accept) on an existing project by a caller who is not its creator
\* is answered 403 Forbidden and leaves the store, the target's status and
\* acceptedAt included, as it was.
C4_NonCreatorForbidden ==
  CanHandle =>
  \A c \in Users, p \in ExistingPIDs, t \in Users, a \in AcceptWords :
    c # CreatorOf(projects, p) =>
      LET r == RespondCall(Store, c, p, t, a, clock) IN
      /\ r.resp.status = 403
      /\ r.store.members = members

\* a Respond was refused while an applicant's row is there, still APPLIED
C4_Witness ==
  /\ resp.op = "respond" /\ resp.status = 403
  /\ \E m \in members : m.role # "Owner" /\ m.status = "APPLIED"

FalsyAgreed == {"undefined", "false"}

\* C5: an Apply whose agreedToGuidelines is false or absent writes nothing, neither
\* a new row nor a change to the caller's existing row, and an authenticated
\* caller naming a project gets the validation error 400.
C5_GuidelinesRequired ==
  CanHandle =>
  \A c \in Callers, p \in PidParams, pl \in Payloads, g \in FalsyAgreed,
     ut \in BOOLEAN, mt \in BOOLEAN :
    LET r == ApplyCall(Store, c, p, pl, g, ut, mt) IN
    /\ r.store = Store
    /\ c \in Users => r.resp.status = 400
    /\ (c \in Users /\ p \in PIDs) => r.resp.error = "You must agree to guidelines"

\* the guidelines error was returned while the project and a row exist
C5_Witness ==
  /\ resp.op = "apply" /\ resp.status = 400 /\ resp.error = "You must agree to guidelines"
  /\ projects # {} /\ members # {}

----------------------------------------------------------------------------
(* What a request body is expected to leave in a row, written out           *)

\* an empty or absent text is stored as NULL
Blank(v) == IF v = "" THEN Null ELSE v

\* the skills of each body, trimmed, without the empty entries
ExpectedSkills(pl) ==
  CASE pl = PayloadA -> << <<"t", "s">>, <<"g", "o">> >>
    [] pl = PayloadB -> << <<"c">>, <<"t", "s">> >>
    [] pl = PayloadE -> <<>>
    [] pl = PayloadO -> <<>>

RoleOf(pl) == IF pl.preferredRole = "" THEN "Contributor" ELSE pl.preferredRole

\* the application fields of row n are those of body pl
AppFieldsAre(n, pl) ==
  /\ n.fullName = Blank(pl.fullName)
  /\ n.contactInfo = Blank(pl.contactInfo)
  /\ n.portfolioUrl = Blank(pl.portfolioUrl)
  /\ n.skills = ExpectedSkills(pl)
  /\ n.preferredRole = Blank(pl.preferredRole)
  /\ n.availability = Blank(pl.availability)
  /\ n.motivation = Blank(pl.motivation)

\* the application fields of row n are those of row m overwritten by the
\* non-empty fields of body pl; the skills are always those of pl
AppFieldsMerged(n, m, pl) ==
  /\ n.fullName = (IF pl.fullName = "" THEN m.fullName ELSE pl.fullName)
  /\ n.contactInfo = (IF pl.contactInfo = "" THEN m.contactInfo ELSE pl.contactInfo)
  /\ n.portfolioUrl = (IF pl.portfolioUrl = "" THEN m.portfolioUrl ELSE pl.portfolioUrl)
  /\ n.skills = ExpectedSkills(pl)
  /\ n.preferredRole = (IF pl.preferredRole = "" THEN m.preferredRole ELSE pl.preferredRole)
  /\ n.availability = (IF pl.availability = "" THEN m.availability ELSE pl.availability)
  /\ n.motivation = (IF pl.motivation = "" THEN m.motivation ELSE pl.motivation)

\* row n has no application
AppFieldsEmpty(n) ==
  /\ n.fullName = Null /\ n.contactInfo = Null /\ n.portfolioUrl = Null
  /\ n.skills = <<>> /\ n.preferredRole = Null /\ n.availability = Null
  /\ n.motivation = Null

TruthyAgreed == AgreedValues \ FalsyAgreed

C7_ReapplyKeepsDecision ==
  CanHandle =>
  \A c \in Callers, p \in PidParams, pl \in Payloads, g \in AgreedValues,
     ut \in BOOLEAN, mt \in BOOLEAN :
    LET r == ApplyCall(Store, c, p, pl, g, ut, mt) IN
    \A m \in RowsOf(members, c, p) :
      \E n \in RowsOf(r.store.members, c, p) :
        n.id = m.id /\ n.status = m.status /\ n.acceptedAt = m.acceptedAt

\* the owner's row was accepted and then filled in by an Apply: still ACCEPTED
C7_Witness ==
  /\ resp.op = "apply" /\ resp.status = 200 /\ resp.applicationSaved
  /\ \E m \in members :
       m.role = "Owner" /\ m.fullName = "Ann" /\ m.status = "ACCEPTED" /\ m.acceptedAt # NoDate

\* C8 (as claimed): a successful Apply by a user with no row for the project
\* creates a row with status APPLIED, a null acceptedAt, role preferredRole or
\* "Contributor", and all the submitted application fields.
C8_AsClaimed ==
  [][(resp'.op = "apply" /\ resp'.status = 200) =>
       \A c \in Users, p \in PIDs, pl \in Payloads, g \in AgreedValues,
          ut \in BOOLEAN, mt \in BOOLEAN :
         (Took(ApplyCall(Store, c, p, pl, g, ut, mt)) /\ RowsOf(members, c, p) = {}) =>
           /\ Cardinality(RowsOf(members', c, p)) = 1
           /\ \A n \in RowsOf(members', c, p) :
                /\ n.status = "APPLIED" /\ n.acceptedAt = NoDate
                /\ n.role = RoleOf(pl)
                /\ AppFieldsAre(n, pl)]_vars

\* C8 (amended): a successful Apply by a user with no row for the project creates
\* a row with status APPLIED, a null acceptedAt and role preferredRole or
\* "Contributor"; the row holds all the submitted application fields when the
\* response reports applicationSaved, and none of them when it does not (the
\* minimal membership of the fallback).
C8_FirstApply ==
  CanHandle =>
  \A c \in Callers, p \in PidParams, pl \in Payloads, g \in AgreedValues,
     ut \in BOOLEAN, mt \in BOOLEAN :
    LET r == ApplyCall(Store, c, p, pl, g, ut, mt) IN
    (r.resp.status = 200 /\ RowsOf(members, c, p) = {}) =>
      /\ Cardinality(RowsOf(r.store.members, c, p)) = 1
      /\ r.store.members \ RowsOf(r.store.members, c, p) = members
      /\ \A n \in RowsOf(r.store.members, c, p) :
           /\ n.status = "APPLIED" /\ n.acceptedAt = NoDate
           /\ n.role = RoleOf(pl)
           /\ r.resp.applicationSaved => AppFieldsAre(n, pl)
           /\ ~r.resp.applicationSaved => AppFieldsEmpty(n)

\* the first request created the project, the second was Ann's Apply, answered
\* from the fallback: a minimal row with her role and no application
C8_Witness ==
  /\ clock = 3
  /\ resp.op = "apply" /\ resp.status = 200 /\ ~resp.applicationSaved
  /\ \E m \in members : m.role = "Frontend" /\ m.status = "APPLIED" /\ AppFieldsEmpty(m)

----------------------------------------------------------------------------
\* rows of ms whose status differs in ms2, and rows of ms that ms2 no longer has
StatusChanged(ms, ms2) == {m \in ms : \E n \in ms2 : n.id = m.id /\ n.status # m.status}

Deleted(ms, ms2) == {m \in ms : \A n \in ms2 : n.id # m.id}

\* C2: a membership's status changes only in a Respond call whose caller is the
\* creator of the membership's project, and a membership row of user U is deleted
\* only in a Remove or Delete project call whose caller is that project's creator
\* or (Remove) U.
C2_OnlyCreatorDecides ==
  CanHandle =>
  /\ \A c \in Callers, p \in PidParams, t \in Callers, a \in Actions :
       LET r == RespondCall(Store, c, p, t, a, clock) IN
       /\ Deleted(members, r.store.members) = {}
       /\ \A m \in StatusChanged(members, r.store.members) :
            c \in Users /\ c = CreatorOf(projects, m.projectId)
  /\ \A c \in Callers, p \in PidParams, t \in Callers :
       LET r == RemoveCall(Store, c, p, t) IN
       /\ StatusChanged(members, r.store.members) = {}
       /\ \A m \in Deleted(members, r.store.members) :
            c \in Users /\ (c = CreatorOf(projects, m.projectId) \/ c = m.userId)
  /\ \A c \in Callers, p \in PidParams, dt \in BOOLEAN :
       LET r == DeleteProjectCall(Store, c, p, dt) IN
       /\ StatusChanged(members, r.store.members) = {}
       /\ \A m \in Deleted(members, r.store.members) :
            c \in Users /\ c = CreatorOf(projects, m.projectId)
  /\ \A c \in Callers, p \in PidParams, pl \in Payloads, g \in AgreedValues,
        ut \in BOOLEAN, mt \in BOOLEAN :
       LET r == ApplyCall(Store, c, p, pl, g, ut, mt) IN
       /\ StatusChanged(members, r.store.members) = {}
       /\ Deleted(members, r.store.members) = {}
  /\ \A cr \in Callers, fp \in BOOLEAN, b \in ProjectBodies, ut \in BOOLEAN, ot \in BOOLEAN :
       LET r == CreateProjectCall(Store, cr, fp, b, ut, ot) IN
       /\ StatusChanged(members, r.store.members) = {}
       /\ Deleted(members, r.store.members) = {}

\* the creator accepted an applicant's row
C2_Witness ==
  /\ resp.op = "respond" /\ resp.status = 200
  /\ \E m \in members : m.role # "Owner" /\ m.status = "ACCEPTED"

\* C9: a Remove on an existing project by a caller who is neither the project's
\* creator nor the target member is answered 403 Forbidden and leaves every row,
\* the target's included, as it was.
C9_RemoveForbidden ==
  CanHandle =>
  \A c \in Users, p \in ExistingPIDs, t \in Users :
    (c # CreatorOf(projects, p) /\ c # t) =>
      LET r == RemoveCall(Store, c, p, t) IN
      /\ r.resp.status = 403
      /\ r.store = Store

\* a Remove was refused while the project has the rows of two users
C9_Witness ==
  /\ resp.op = "remove" /\ resp.status = 403
  /\ \E m \in members, n \in members : m.userId # n.userId

\* C10: on an existing project, a Remove by the creator or by the target on a pair
\* that has no row succeeds and changes nothing; a Remove called twice in a row
\* succeeds both times and the second call changes nothing.
C10_RemoveIdempotent ==
  CanHandle =>
  \A c \in Users, p \in ExistingPIDs, t \in Users :
    (c = CreatorOf(projects, p) \/ c = t) =>
      LET r1 == RemoveCall(Store, c, p, t)
          r2 == RemoveCall(r1.store, c, p, t)
      IN /\ r1.resp.status = 200
         /\ RowsOf(r1.store.members, t, p) = {}
         /\ RowsOf(members, t, p) = {} => r1.store = Store
         /\ r2.resp.status = 200
         /\ r2.store = r1.store

\* two requests were handled, Create project and a Remove answered 200, and the
\* creator's row is still there: the Remove named a user without a row
C10_Witness ==
  /\ clock = 3
  /\ resp.op = "remove" /\ resp.status = 200
  /\ \E m \in members : m.role = "Owner"

----------------------------------------------------------------------------
\* the ids handed out so far
IssuedPIDs == 1..(nextPid - 1)

\* no List on store s, whatever its filters, returns project p
ListsOmit(s, p) ==
  /\ \A params \in ListParams, ft \in BOOLEAN :
       LET items == ListCall(s, params, ft).resp.items
       IN \A i \in 1..Len(items) : items[i] # p
  /\ \A params \in ListParams :
       LET items == ListFileCall(s, params).resp.items
       IN \A i \in 1..Len(items) : items[i] # p

\* project p is gone from store s: no row, no item, no membership, not listed
Gone(s, p) ==
  /\ ProjectFindUnique(s.projects, p) = {}
  /\ FileFind(s.file, p) = {}
  /\ \A m \in s.members : m.projectId # p
  /\ ListsOmit(s, p)

\* C11: a Delete project answered 200 leaves no ProjectMember row of the project,
\* no project row (or item of the file), and no List, whatever its filters,
\* returns the project; this stays so in every later state.
C11_DeletedIsGone ==
  /\ CanHandle =>
       \A c \in Callers, p \in PidParams, dt \in BOOLEAN :
         LET r == IF hasProjectModel THEN DeleteProjectCall(Store, c, p, dt)
                  ELSE DeleteProjectFileCall(Store, c, p)
         IN r.resp.status = 200 => Gone(r.store, p)
  /\ \A p \in IssuedPIDs :
       (ProjectFindUnique(projects, p) = {} /\ FileFind(file, p) = {}) => Gone(Store, p)

\* three requests were handled, the last a successful Delete project, and two
\* users are known to the store: the creator and an applicant of the project
C11_Witness ==
  /\ clock = 4
  /\ resp.op = "delete" /\ resp.status = 200
  /\ Cardinality(users) = 2
  /\ projects = {} /\ members = {}

\* C12: a Delete project by a signed-in caller naming an id is answered 404 when
\* no project has the id and 403 when the project's creator is someone else, and
\* in both cases leaves the project and every membership row (the whole store,
\* and the file) as they were.
C12_DeleteRefused ==
  CanHandle =>
  \A c \in Users, p \in PIDs, dt \in BOOLEAN :
    LET r == IF hasProjectModel THEN DeleteProjectCall(Store, c, p, dt)
             ELSE DeleteProjectFileCall(Store, c, p)
        found == IF hasProjectModel THEN {x.creatorId : x \in ProjectFindUnique(projects, p)}
                 ELSE {file[i].creatorId : i \in FileFind(file, p)}
    IN /\ found = {} => r.resp.status = 404 /\ r.store = Store
       /\ (found # {} /\ c \notin found) => r.resp.status = 403 /\ r.store = Store

\* a Delete project was refused with 403 while the project has membership rows
C12_Witness ==
  /\ resp.op = "delete" /\ resp.status = 403
  /\ projects # {} /\ members # {}

----------------------------------------------------------------------------
\* the rows and items that store s2 holds and store s does not (written rows)
Written(s, s2) ==
  [users |-> s2.users \ s.users,
   projects |-> (s2.projects \ s.projects)
                  \cup ({s2.file[i] : i \in 1..Len(s2.file)} \ {s.file[i] : i \in 1..Len(s.file)}),
   members |-> s2.members \ s.members,
   skills |-> s2.skills \ s.skills]

\* a request of session user c (Null: no session) that took s to s2 wrote for
\* nobody but c, and wrote and deleted nothing without a session
WroteAs(c, s, s2) ==
  /\ c = Null => s2 = s
  /\ \A u \in Written(s, s2).users : u = c
  /\ \A x \in Written(s, s2).projects : x.creatorId = c
  /\ \A x \in Written(s, s2).members : x.userId = c
  /\ \A x \in Written(s, s2).skills : x.userId = c

\* C13: every writing handler checks the session first: a request without a
\* session writes no row, and the user id of a row it writes for a user
\* (creatorId, the Owner membership, the applicant's membership, the skill's
\* owner) is the id of the session's user.
C13_WritesAsCaller ==
  CanHandle =>
  \A c \in Callers :
    /\ \A creatorId \in Callers, fp \in BOOLEAN, b \in ProjectBodies, ut \in BOOLEAN, ot \in BOOLEAN :
         WroteAs(c, Store, (IF hasProjectModel
                            THEN CreateProjectCall(Store, creatorId, fp, b, ut, ot)
                            ELSE CreateProjectFileCall(Store, creatorId, fp, b)).store)
    /\ \A p \in PidParams, dt \in BOOLEAN :
         WroteAs(c, Store, (IF hasProjectModel THEN DeleteProjectCall(Store, c, p, dt)
                            ELSE DeleteProjectFileCall(Store, c, p)).store)
    /\ \A p \in PidParams, pl \in Payloads, g \in AgreedValues, ut \in BOOLEAN, mt \in BOOLEAN :
         WroteAs(c, Store, ApplyCall(Store, c, p, pl, g, ut, mt).store)
    /\ \A p \in PidParams, t \in Callers, a \in Actions :
         RespondCall(Store, c, p, t, a, clock).store.members \ members # {} => c # Null
    /\ \A p \in PidParams, t \in Callers :
         c = Null => RemoveCall(Store, c, p, t).store = Store
    /\ \A b \in SkillBodies, nt \in BOOLEAN :
         WroteAs(c, Store, SkillCreateCall(Store, c, b, nt).store)
    /\ \A sid \in SidParams, nt \in BOOLEAN :
         WroteAs(c, Store, SkillDeleteCall(Store, c, sid, nt).store)

\* the statuses of a refused request
Refusals == {400, 401, 403, 404}

\* C14: an Apply, Respond, Remove, Create project, Delete project or Skill
\* request answered 400, 401, 403 or 404 leaves every row of User, Project,
\* ProjectMember and Skill (and the file) as it was.
C14_RefusedWritesNothing ==
  CanHandle =>
  \A c \in Callers :
    /\ \A p \in PidParams, pl \in Payloads, g \in AgreedValues, ut \in BOOLEAN, mt \in BOOLEAN :
         LET r == ApplyCall(Store, c, p, pl, g, ut, mt)
         IN r.resp.status \in Refusals => r.store = Store
    /\ \A p \in PidParams, t \in Callers, a \in Actions :
         LET r == RespondCall(Store, c, p, t, a, clock)
         IN r.resp.status \in Refusals => r.store = Store
    /\ \A p \in PidParams, t \in Callers :
         LET r == RemoveCall(Store, c, p, t)
         IN r.resp.status \in Refusals => r.store = Store
    /\ \A fp \in BOOLEAN, b \in ProjectBodies, ut \in BOOLEAN, ot \in BOOLEAN :
         LET r == IF hasProjectModel THEN CreateProjectCall(Store, c, fp, b, ut, ot)
                  ELSE CreateProjectFileCall(Store, c, fp, b)
         IN r.resp.status \in Refusals => r.store = Store
    /\ \A p \in PidParams, dt \in BOOLEAN :
         LET r == IF hasProjectModel THEN DeleteProjectCall(Store, c, p, dt)
                  ELSE DeleteProjectFileCall(Store, c, p)
         IN r.resp.status \in Refusals => r.store = Store
    /\ \A b \in SkillBodies, nt \in BOOLEAN :
         LET r == SkillCreateCall(Store, c, b, nt)
         IN r.resp.status \in Refusals => r.store = Store
    /\ \A sid \in SidParams, nt \in BOOLEAN :
         LET r == SkillDeleteCall(Store, c, sid, nt)
         IN r.resp.status \in Refusals => r.store = Store
    /\ LET r == SkillListCall(Store, c)
       IN r.resp.status \in Refusals => r.store = Store

\* three requests were handled, the last an Apply answered 404: the project it
\* names was created and deleted, and its creator's User row is there
C14_Witness ==
  /\ clock = 4
  /\ resp.op = "apply" /\ resp.status = 404
  /\ nextPid > 1 /\ projects = {} /\ users # {}

\* C17: a Respond (accept or reject) by the project's creator on a target who has
\* no membership row for the project fails with a not-found error (404), creates
\* no row and changes no row.
C17_NoRowNotFound ==
  CanHandle =>
  \A p \in ExistingPIDs, t \in Users, a \in AcceptWords \cup RejectWords :
    RowsOf(members, t, p) = {} =>
      LET r == RespondCall(Store, CreatorOf(projects, p), p, t, a, clock)
      IN r.resp.status = 404 /\ r.store = Store

\* the action words that are neither accept nor reject
InvalidWords == Actions \ (AcceptWords \cup RejectWords)

\* C18 (as claimed): a Respond whose action is neither accept nor reject is
\* answered with a validation error (400) and changes no membership, for every
\* caller and every target.
C18_AsClaimed ==
  CanHandle =>
  \A c \in Callers, p \in PidParams, t \in Callers, a \in InvalidWords :
    LET r == RespondCall(Store, c, p, t, a, clock)
    IN r.resp.status = 400 /\ r.store.members = members

\* C18 (amended): a Respond whose action is neither accept nor reject changes no
\* row, for every caller and every target.  It is answered with the validation
\* error 400 when projectId, userId or action is missing, and when the caller is
\* the creator of the project named ('Invalid action'); with all three
\* parameters given, a request without a session is answered 401, one naming no
\* existing project 404, and one by another user than the creator 403.
C18_InvalidAction ==
  CanHandle =>
  \A c \in Callers, p \in PidParams, t \in Callers, a \in InvalidWords :
    LET r == RespondCall(Store, c, p, t, a, clock)
        given == p # NoId /\ t # Null /\ a # ""
    IN /\ r.store = Store
       /\ ~given => r.resp.status = 400
       /\ (given /\ c = Null) => r.resp.status = 401
       /\ (given /\ c # Null /\ p \notin ExistingPIDs) => r.resp.status = 404
       /\ (given /\ c # Null /\ p \in ExistingPIDs) =>
            IF c = CreatorOf(projects, p)
            THEN r.resp.status = 400 /\ r.resp.error = "Invalid action"
            ELSE r.resp.status = 403

\* three requests were handled, the last a Respond answered 'Invalid action',
\* while an applicant's row is there, still APPLIED
C18_Witness ==
  /\ clock = 4
  /\ resp.op = "respond" /\ resp.status = 400 /\ resp.error = "Invalid action"
  /\ \E m \in members : m.role # "Owner" /\ m.status = "APPLIED"

\* C19: a Respond(accept) by the creator on a membership that is already ACCEPTED
\* is a no-op: it succeeds and the row after it, acceptedAt included, equals the
\* row before it.
C19_ReacceptNoOp ==
  CanHandle =>
  \A p \in ExistingPIDs, t \in Users, a \in AcceptWords :
    (\E m \in RowsOf(members, t, p) : m.status = "ACCEPTED") =>
      LET r == RespondCall(Store, CreatorOf(projects, p), p, t, a, clock)
      IN r.resp.status = 200 /\ r.store.members = members

----------------------------------------------------------------------------
\* the ids a List returns
Listed(items) == {items[i] : i \in 1..Len(items)}

\* the projects of the deployment: the rows of the table, or the items of the file
AllProjects == IF hasProjectModel THEN projects ELSE {file[i] : i \in 1..Len(file)}

\* a List that reaches its store
ListOf(params) ==
  IF hasProjectModel THEN ListCall(Store, params, FALSE).resp.items
  ELSE ListFileCall(Store, params).resp.items

\* C20: a List with maxDuration = m returns no project whose durationWeeks exceeds
\* m, and the filter never excludes a project whose durationWeeks is null (such a
\* project is returned with the filter whenever it is returned without it); with
\* the relational store and with the file.
C20_MaxDuration ==
  CanHandle =>
  \A params \in ListParams :
    params.maxDuration # "" =>
      \A x \in AllProjects :
        /\ (x.durationWeeks # NoWeeks /\ x.durationWeeks[1] > NumberOf(params.maxDuration))
             => x.id \notin Listed(ListOf(params))
        /\ (x.durationWeeks = NoWeeks
              /\ x.id \in Listed(ListOf([params EXCEPT !.maxDuration = ""])))
             => x.id \in Listed(ListOf(params))

----------------------------------------------------------------------------
(* Concurrent requests on one row.  The store applies the writes one at a   *)
(* time; the order of the writes is the order of the steps that make them.  *)

\* this step is the write of the Apply request r: its upsert, or the create of
\* its fallback, went through
ApplyWrote(r) ==
  /\ r \in InFlight /\ r.op = "apply" /\ r.pc \in {"upsert", "create"}
  /\ inflight' = inflight (-) SetToBag({r})
  /\ resp'.op = "apply" /\ resp'.status = 200
  /\ members' # members

----------------------------------------------------------------------------
\* this step is the update of the Respond request r, and it went through
RespondWrote(r) ==
  /\ r \in InFlight /\ At(r, "respond", "update")
  /\ inflight' = inflight (-) SetToBag({r})
  /\ resp'.op = "respond" /\ resp'.status = 200

\* C16: of two concurrent Respond calls by the creator on one membership, one
\* accept and one reject, each update changes the store exactly as the call, run
\* alone on the store as it stands at the moment of the update, would change it:
\* the target's row takes the status of the action (and on accept the time the
\* handler read), every other column and every other row stay as they were.  The
\* final row is the one left by running the two calls one after the other in
\* the order of their updates.
C16_RespondUpdatesInOrder ==
  [][\A r \in InFlight :
       RespondWrote(r) =>
         /\ LET alone == RespondCall(Store, r.caller, r.pid, r.target, r.action, r.now)
            IN alone.store.members = members' /\ alone.resp = resp'
         /\ Cardinality(members') = Cardinality(members)
         /\ \A m \in members :
              IF m.userId = r.target /\ m.projectId = r.pid
              THEN [m EXCEPT !.status = IF r.action = "accept" THEN "ACCEPTED" ELSE "REJECTED",
                             !.acceptedAt = IF r.action = "accept" THEN Date(r.now) ELSE @]
                     \in members'
              ELSE m \in members']_vars

\* an accept and a reject of the creator for one membership are both past their
\* checks and about to update the row
C16_Witness ==
  \E r1 \in InFlight, r2 \in InFlight :
    /\ At(r1, "respond", "update") /\ At(r2, "respond", "update")
    /\ r1.action = "accept" /\ r2.action = "reject"
    /\ r1.pid = r2.pid /\ r1.target = r2.target
    /\ RowsOf(members, r1.target, r1.pid) # {}

----------------------------------------------------------------------------
\* the same projects held by the other store: the rows as items of the file,
\* newest first, and the items of the file as rows
RECURSIVE AsFile(_)
AsFile(ps) ==
  IF ps = {} THEN <<>>
  ELSE LET newest == CHOOSE x \in ps : \A y \in ps : y.id <= x.id
       IN <<newest>> \o AsFile(ps \ {newest})

\* the ids returned for params by the relational path and by the file path, on
\* the projects of the deployment
ListedByStore(params) ==
  Listed(ListCall([Store EXCEPT !.projects = AllProjects], params, FALSE).resp.items)

ListedByFile(params) ==
  Listed(ListFileCall([Store EXCEPT !.file = AsFile(AllProjects)], params).resp.items)

\* q is, letter case aside, the title, the short description or a tag of p
EqualsIgnoringCase(p, q) ==
  \/ Lower(p.title) = Lower(q)
  \/ Lower(p.shortDescription) = Lower(q)
  \/ \E i \in 1..Len(p.requiredSkills) : Lower(p.requiredSkills[i]) = Lower(q)

\* q occurs, letter case aside, in the title, the short description or a tag of p
OccursIgnoringCase(p, q) ==
  \/ Includes(Lower(p.title), Lower(q))
  \/ Includes(Lower(p.shortDescription), Lower(q))
  \/ \E i \in 1..Len(p.requiredSkills) : Includes(Lower(p.requiredSkills[i]), Lower(q))

\* C21: a List with a text query q returns, among the projects passing the other
\* filters, exactly those that q matches case-insensitively in the title, the
\* short description or a required-skill tag (every project q equals letter case
\* aside, no project in which q does not occur), and the relational path and the
\* file path select the same projects for the same data and query.
C21_QueryMatches ==
  CanHandle =>
  \A params \in ListParams :
    params.q # <<>> =>
      LET others == ListOf([params EXCEPT !.q = <<>>])
      IN /\ ListedByStore(params) = ListedByFile(params)
         /\ \A x \in AllProjects :
              /\ (x.id \in Listed(others) /\ EqualsIgnoringCase(x, params.q))
                   => x.id \in Listed(ListOf(params))
              /\ x.id \in Listed(ListOf(params))
                   => x.id \in Listed(others) /\ OccursIgnoringCase(x, params.q)

----------------------------------------------------------------------------
\* a stored list of tags holds only trimmed, non-empty strings
TrimmedNonEmpty(xs) ==
  \A i \in 1..Len(xs) : xs[i] # <<>> /\ Trim(xs[i]) = xs[i]

NoStringTwice(xs) ==
  \A i, j \in 1..Len(xs) : xs[i] = xs[j] => i = j

\* C22: for every requiredSkills input of Create project, a list or a
\* comma-separated string, the stored list holds only trimmed, non-empty strings
\* and holds no string twice.
C22_SkillsNormalized ==
  \A x \in AllProjects :
    TrimmedNonEmpty(x.requiredSkills) /\ NoStringTwice(x.requiredSkills)

----------------------------------------------------------------------------
\* the outcome of the primary operation: the rows written and the answer
PrimaryOutcome(r) ==
  [users |-> r.store.users, projects |-> r.store.projects, skills |-> r.store.skills,
   nextPid |-> r.store.nextPid, nextSid |-> r.store.nextSid, resp |-> r.resp]

\* C23: a failure of a best-effort side effect never changes the outcome of its
\* primary operation: when the insert of the creator's Owner membership fails,
\* Create project stores the same project and answers as it does when the insert
\* succeeds (201 with the project stored); when the push to the notifier fails,
\* Skill create and Skill delete write and answer as they do when it succeeds.
C23_BestEffort ==
  CanHandle =>
    /\ \A c \in Callers, fp \in BOOLEAN, b \in ProjectBodies, ut \in BOOLEAN :
         LET ok == CreateProjectCall(Store, c, fp, b, ut, FALSE)
             failed == CreateProjectCall(Store, c, fp, b, ut, TRUE)
         IN /\ PrimaryOutcome(failed) = PrimaryOutcome(ok)
            /\ ok.resp.status = 201 =>
                 /\ failed.resp.status = 201
                 /\ \E x \in failed.store.projects : x.id = nextPid /\ x.creatorId = c
    /\ \A c \in Callers, b \in SkillBodies :
         LET ok == SkillCreateCall(Store, c, b, FALSE)
             failed == SkillCreateCall(Store, c, b, TRUE)
         IN /\ PrimaryOutcome(failed) = PrimaryOutcome(ok)
            /\ ok.resp.status = 201 => \E x \in failed.store.skills : x.id = nextSid
    /\ \A c \in Callers, sid \in SidParams :
         LET ok == SkillDeleteCall(Store, c, sid, FALSE)
             failed == SkillDeleteCall(Store, c, sid, TRUE)
         IN /\ PrimaryOutcome(failed) = PrimaryOutcome(ok)
            /\ ok.resp.status = 200 => \A x \in failed.store.skills : x.id # sid

\* a project is stored without a membership row of its creator, and the last
\* request was a Skill create answered 201 whose event never reached the notifier
C23_Witness ==
  /\ \E x \in projects : \A m \in members : m.projectId # x.id
  /\ resp.op = "skillCreate" /\ resp.status = 201
  /\ skills # {} /\ pushed = {}

----------------------------------------------------------------------------
\* what a Skill delete of sid by the signed-in caller c does to the rows: the
\* rows of other users stay, and the owner's call removes exactly the row sid
SkillDeleteKeepsOthers(c, sid, r) ==
  /\ \A x \in skills : x.userId # c => x \in r.store.skills
  /\ \A x \in skills : (x.id = sid /\ x.userId = c) => r.store.skills = skills \ {x}

\* C24: a Skill delete by an authenticated caller who is not the owner of the
\* skill fails with forbidden (403) and leaves the row in place; a Skill delete
\* by the owner removes exactly that row; no call of any user removes a skill of
\* another user.
C24_DeleteOwnSkillOnly ==
  CanHandle =>
  \A c \in Users, sid \in SIDs, nt \in BOOLEAN :
    LET r == SkillDeleteCall(Store, c, sid, nt)
    IN /\ SkillDeleteKeepsOthers(c, sid, r)
       /\ (\E x \in skills : x.id = sid /\ x.userId # c) =>
            r.resp.status = 403 /\ r.store.skills = skills

----------------------------------------------------------------------------
\* C25: a Skill create of a signed-in caller with any of name, level, category
\* or type missing or empty answers 400 and inserts no Skill row.
C25_MissingFieldRefused ==
  CanHandle =>
  \A c \in Users, b \in SkillBodies, nt \in BOOLEAN :
    (b.name = "" \/ b.level = "" \/ b.category = "" \/ b.type = "") =>
      LET r == SkillCreateCall(Store, c, b, nt)
      IN r.resp.status = 400 /\ r.store.skills = skills /\ r.store = Store

\* a Skill create was answered 400 when a User row existed and a skill id was
\* still free: no row was inserted
C25_Witness ==
  /\ resp.op = "skillCreate" /\ resp.status = 400
  /\ users # {} /\ skills = {} /\ nextSid = 1

----------------------------------------------------------------------------
\* every ProjectMember row refers to a project that exists
MembersHaveProject == \A m \in members : ProjectFindUnique(projects, m.projectId) # {}

\* this step is a step of the request r in flight
StepOf(r) == r \in InFlight /\ CopiesIn(r, inflight') < CopiesIn(r, inflight)

Answered == BagCardinality(inflight') < BagCardinality(inflight)

\* an Apply that passed its existence check does its write when the project is
\* gone: nothing is written, and its answer is the failure of the fallback
LateWriteFails(r) ==
  (r.op = "apply" /\ r.pc \in {"userUpsert", "upsert", "findFirst", "create"}
     /\ ProjectFindUnique(projects, r.pid) = {}) =>
    /\ members' = members
    /\ Answered => resp' = Fail("apply", 500, "Failed to apply")

\* an Apply whose existence check finds no project answers not-found
AbsentNotFound(r) ==
  (r.op = "apply" /\ r.pc = "findUnique" /\ ProjectFindUnique(projects, r.pid) = {}) =>
    /\ members' = members
    /\ Answered /\ resp' = Fail("apply", 404, "Project not found")

\* C26: in every reachable state each ProjectMember row refers to a project that
\* exists, also when an Apply for P interleaves with a Delete of P (the Apply's
\* existence check, the Delete's member deletion and project deletion, then the
\* Apply's write): the late write fails, or its row is removed with the project;
\* and an Apply to a project that does not exist answers not-found and writes no
\* membership row.
C26_MembersHaveProject ==
  /\ []MembersHaveProject
  /\ [][\A r \in InFlight : StepOf(r) => LateWriteFails(r) /\ AbsentNotFound(r)]_vars

\* an Apply was answered 500 after the project it had found was deleted by a
\* Delete project that ran between its existence check and its write
C26_Witness ==
  /\ resp = Fail("apply", 500, "Failed to apply")
  /\ projects = {} /\ nextPid > 1 /\ members = {}
  /\ inflight = NoRequests

----------------------------------------------------------------------------
AppliedNotAccepted == \A m \in members : m.status = "APPLIED" => m.acceptedAt = NoDate

\* the row n of the next state holds the acceptedAt it held before the step
KeepsAcceptedAt(n) == \E m \in members : m.id = n.id /\ m.acceptedAt = n.acceptedAt

\* the step is the update of a Respond(accept) on the row n, answered 200
AcceptOf(n) ==
  \E r \in InFlight :
    /\ StepOf(r) /\ r.op = "respond" /\ r.pc = "update" /\ r.action = "accept"
    /\ r.target = n.userId /\ r.pid = n.projectId
    /\ \E m \in members : m.id = n.id
    /\ n.status = "ACCEPTED" /\ n.acceptedAt = Date(r.now)
    /\ resp' = Reply("respond", 200)

\* C27: in every reachable state a membership with status APPLIED has a null
\* acceptedAt; a row is created with a null acceptedAt and every step that
\* changes the acceptedAt of a row is a Respond(accept) that succeeded on that
\* row, so a membership has a non-null acceptedAt only if a Respond(accept)
\* succeeded on it since it was created, and no other operation writes
\* acceptedAt.
C27_AcceptedAt ==
  /\ []AppliedNotAccepted
  /\ [][\A n \in members' :
          /\ (\A m \in members : m.id # n.id) => n.acceptedAt = NoDate
          /\ KeepsAcceptedAt(n) \/ n.acceptedAt = NoDate \/ AcceptOf(n)
          /\ (\E m \in members : m.id = n.id /\ m.acceptedAt # n.acceptedAt)
               => AcceptOf(n)]_vars

\* an applicant was accepted: the row is ACCEPTED with the time of the accept
C27_Witness ==
  /\ resp = Reply("respond", 200)
  /\ \E m \in members : m.status = "ACCEPTED" /\ m.acceptedAt # NoDate /\ m.role # "Owner"

----------------------------------------------------------------------------
Decided == {"ACCEPTED", "REJECTED"}

\* C28: no single operation changes the status of an existing membership row
\* from ACCEPTED or REJECTED to APPLIED: a step leaves a decided row decided, or
\* deletes it; a (user, project) pair is APPLIED again only after its row was
\* deleted (by Remove or by the deletion of the project) and a new Apply created
\* a fresh row, so a step that makes a row APPLIED is an Apply that found no row
\* of the pair.
C28_NoReopen ==
  [][/\ \A m \in members : m.status \in Decided =>
          \A n \in members' :
            (n.userId = m.userId /\ n.projectId = m.projectId) => n.status \in Decided
     /\ \A n \in members' : (n.status = "APPLIED" /\ n \notin members) =>
          \/ /\ \E m \in members : m.id = n.id /\ m.status = "APPLIED"
             /\ \E r \in InFlight : StepOf(r) /\ r.op = "apply"
          \/ /\ RowsOf(members, n.userId, n.projectId) = {}
             /\ \E r \in InFlight :
                  /\ StepOf(r) /\ r.op \in {"apply", "create"}
                  /\ r.caller = n.userId /\ r.pid = n.projectId]_vars

\* an Apply saved its application on a row that was decided: the row took the
\* fields of the application and kept its status
C28_Witness ==
  /\ resp.op = "apply" /\ resp.applicationSaved
  /\ \E m \in members : m.status \in Decided /\ m.agreedToGuidelines
  /\ inflight = NoRequests

----------------------------------------------------------------------------
\* C29: the authority of the creator depends on the creatorId of the project
\* only, not on a membership row: when the creator has no row in the project (the
\* Owner row was removed, or never inserted), the creator's Respond, Remove and
\* Delete project calls still succeed; and a user who holds a membership row with
\* role "Owner" without being the creator is refused by all three.
C29_AuthorityByCreatorId ==
  CanHandle =>
  \A x \in projects :
    /\ RowsOf(members, x.creatorId, x.id) = {} =>
         /\ \A m \in members, a \in {"accept", "reject"} :
              m.projectId = x.id =>
                /\ RespondCall(Store, x.creatorId, x.id, m.userId, a, clock).resp.status = 200
                /\ RemoveCall(Store, x.creatorId, x.id, m.userId).resp.status = 200
         /\ \A dt \in BOOLEAN :
              DeleteProjectCall(Store, x.creatorId, x.id, dt).resp.status = 200
    /\ \A o \in members :
         (o.projectId = x.id /\ o.role = "Owner" /\ o.userId # x.creatorId) =>
           /\ \A t \in Users, a \in {"accept", "reject"} :
                LET r == RespondCall(Store, o.userId, x.id, t, a, clock)
                IN r.resp.status = 403 /\ r.store = Store
           /\ \A t \in Users \ {o.userId} :
                LET r == RemoveCall(Store, o.userId, x.id, t)
                IN r.resp.status = 403 /\ r.store = Store
           /\ \A dt \in BOOLEAN :
                LET r == DeleteProjectCall(Store, o.userId, x.id, dt)
                IN r.resp.status = 403 /\ r.store = Store

\* a project whose creator holds no membership row, and in which another user
\* holds a row with role "Owner"
C29_Witness ==
  \E x \in projects :
    /\ RowsOf(members, x.creatorId, x.id) = {}
    /\ \E o \in members : o.projectId = x.id /\ o.role = "Owner" /\ o.userId # x.creatorId
    /\ CanHandle

----------------------------------------------------------------------------
\* how often the id occurs in the lists of the page
Occurrences(id) ==
  Cardinality({i \in 1..Len(learned) : learned[i].id = id})
    + Cardinality({i \in 1..Len(taught) : taught[i].id = id})

\* the add under this temporary id is over: its response was handled
AddOver(tempId) ==
  /\ \E k \in 1..(nextTemp - 1) : tempId = TempId(k)
  /\ \A p \in posts : p.tempId # tempId
  /\ \A a \in responses : a.tempId # tempId

\* C30: after a successful skill add from the dashboard (the optimistic insert
\* under a temporary id, the response of the POST replacing the temporary entry,
\* the notifier emitting skillAdded to the page, in any order of arrival) the
\* added skill is exactly once in the lists of the page; after a failed add the
\* lists are what they were before it: no temporary entry stays, and when every
\* add has failed the lists are empty as at the start.
C30_AddedOnce ==
  /\ \A x \in skills :
       (\A a \in responses : a.savedSkill.id # SavedId(x.id)) => Occurrences(SavedId(x.id)) = 1
  /\ \A k \in 1..MaxAdds : AddOver(TempId(k)) => Occurrences(TempId(k)) = 0
  /\ (skills = {} /\ posts = {} /\ responses = {}) => learned = <<>> /\ taught = <<>>

====
